---- MODULE Spec2Model ----
(***************************************************************************)
(* super-shell-mcp: the command policy / approval / execution engine       *)
(* (src/src/services/command_service.py), its default whitelist            *)
(* (src/src/utils/command_whitelist.py) and the execute_command tool       *)
(* (src/src/main.py), as a state machine.                                   *)
(*                                                                         *)
(* Strings that are split on path separators (commands) are sequences of   *)
(* atoms: an atom is a separator character ("/" or "\\") or a maximal      *)
(* separator-free chunk.  Argument strings are compared for equality only  *)
(* and are TLA+ strings.  An Optional value is None (<<>>) or Some(x)      *)
(* (<<x>>).                                                                *)
(***************************************************************************)
EXTENDS Integers, Sequences, FiniteSets, Bags, TLC

VARIABLES
    platform,          \* detect_platform()
    whitelist,         \* CommandService.whitelist: key -> CommandWhitelistEntry
    pending_commands,  \* CommandService.pending_commands: id -> PendingCommand
    uuids,             \* number of ids uuid.uuid4() has generated
    events,            \* per id, the lifecycle events emit() has published
    fut,               \* per id, the asyncio.Future of the blocking queue call
    timers,            \* per id, the loop.call_later(5.0, _timeout_check) handle
    runs,              \* bag of calls suspended inside _run_now
    runsStarted,       \* per id, how many child processes approve has spawned
    lastCall,          \* what the call of the last step returned or raised
    raising            \* the subscribers whose callback raises when called

vars == <<platform, whitelist, pending_commands, uuids, events, fut, timers,
          runs, runsStarted, lastCall, raising>>

----------------------------------------------------------------------------
(* Bounds of the model *)

\* how many ids uuid.uuid4() can hand out
MaxIds == 2
\* how many queue calls are made where the callers decide concurrently
MaxQueued == 1
\* how many approve_command calls may be suspended inside _run_now at once
MaxApproveRuns == 2
\* how many SAFE execute_command calls may be suspended inside _run_now at once
MaxSafeRuns == 1

----------------------------------------------------------------------------
(* Optional values and Python truthiness *)

None == <<>>
Some(x) == <<x>>
IsNone(o) == o = <<>>
Truthy(o) == o # <<>> /\ Len(o[1]) > 0

(* CommandSecurityLevel *)
SAFE == "safe"
REQUIRES_APPROVAL == "requires_approval"
FORBIDDEN == "forbidden"
CommandSecurityLevel == {SAFE, REQUIRES_APPROVAL, FORBIDDEN}
NotWhitelisted == "None"

(* PlatformType *)
WINDOWS == "windows"
MACOS == "macos"
LINUX == "linux"
UNKNOWN == "unknown"
PlatformType == {WINDOWS, MACOS, LINUX, UNKNOWN}

(* CommandWhitelistEntry(command, security_level, allowed_args, description): *)
(* the dataclass's positional order.                                         *)
Entry(command, security_level, allowed_args, description) ==
    [command |-> command, security_level |-> security_level,
     allowed_args |-> allowed_args, description |-> description]

----------------------------------------------------------------------------
(* Path handling *)

SplitLast(s, sep) ==
    LET at == {i \in 1..Len(s) : s[i] = sep}
    IN  IF at = {} THEN s
        ELSE SubSeq(s, (CHOOSE i \in at : \A j \in at : j <= i) + 1, Len(s))

\* A faulty variant of base_command (sensitivity of C6): it strips the
\* path under "/" only, as os.path.basename does on a POSIX host.
base_command_slash_only(command) == SplitLast(command, "/")

\* command.split("\\")[-1].split("/")[-1]
base_command(command) == SplitLast(SplitLast(command, "\\"), "/")

\* os.path.basename(command) on a POSIX host splits on "/" only; on Windows
\* (ntpath) on both separators.
os_path_basename(p, command) ==
    IF p = WINDOWS THEN SplitLast(SplitLast(command, "\\"), "/")
    ELSE SplitLast(command, "/")

----------------------------------------------------------------------------
(* The default whitelist (utils/command_whitelist.py).  Every platform     *)
(* entry is built positionally, so its third argument, the description     *)
(* text, lands in allowed_args (a str, indexed by character) and its       *)
(* description stays None.                                                 *)

get_common_safe_commands ==
   <<
      Entry(<<"echo">>, SAFE,
            None,
            Some("Print text to standard output"))
   >>

get_windows_safe_commands ==
   <<
      Entry(<<"dir">>, SAFE,
            Some(<<"L", "i", "s", "t", " ", "d", "i", "r", "e", "c", "t", "o", "r", "y", " ", "c", "o", "n", "t", "e", "n", "t", "s">>),
            None),
      Entry(<<"type">>, SAFE,
            Some(<<"D", "i", "s", "p", "l", "a", "y", " ", "t", "h", "e", " ", "c", "o", "n", "t", "e", "n", "t", "s", " ", "o", "f", " ", "a", " ", "t", "e", "x", "t", " ", "f", "i", "l", "e">>),
            None),
      Entry(<<"cd">>, SAFE,
            Some(<<"C", "h", "a", "n", "g", "e", " ", "d", "i", "r", "e", "c", "t", "o", "r", "y">>),
            None),
      Entry(<<"findstr">>, SAFE,
            Some(<<"S", "e", "a", "r", "c", "h", " ", "f", "o", "r", " ", "s", "t", "r", "i", "n", "g", "s", " ", "i", "n", " ", "f", "i", "l", "e", "s">>),
            None),
      Entry(<<"where">>, SAFE,
            Some(<<"L", "o", "c", "a", "t", "e", " ", "p", "r", "o", "g", "r", "a", "m", "s">>),
            None),
      Entry(<<"whoami">>, SAFE,
            Some(<<"D", "i", "s", "p", "l", "a", "y", " ", "c", "u", "r", "r", "e", "n", "t", " ", "u", "s", "e", "r">>),
            None),
      Entry(<<"hostname">>, SAFE,
            Some(<<"D", "i", "s", "p", "l", "a", "y", " ", "c", "o", "m", "p", "u", "t", "e", "r", " ", "n", "a", "m", "e">>),
            None),
      Entry(<<"ver">>, SAFE,
            Some(<<"D", "i", "s", "p", "l", "a", "y", " ", "o", "p", "e", "r", "a", "t", "i", "n", "g", " ", "s", "y", "s", "t", "e", "m", " ", "v", "e", "r", "s", "i", "o", "n">>),
            None)
   >>

get_macos_safe_commands ==
   <<
      Entry(<<"ls">>, SAFE,
            Some(<<"L", "i", "s", "t", " ", "d", "i", "r", "e", "c", "t", "o", "r", "y", " ", "c", "o", "n", "t", "e", "n", "t", "s">>),
            None),
      Entry(<<"pwd">>, SAFE,
            Some(<<"P", "r", "i", "n", "t", " ", "w", "o", "r", "k", "i", "n", "g", " ", "d", "i", "r", "e", "c", "t", "o", "r", "y">>),
            None),
      Entry(<<"cat">>, SAFE,
            Some(<<"C", "o", "n", "c", "a", "t", "e", "n", "a", "t", "e", " ", "a", "n", "d", " ", "p", "r", "i", "n", "t", " ", "f", "i", "l", "e", "s">>),
            None),
      Entry(<<"grep">>, SAFE,
            Some(<<"S", "e", "a", "r", "c", "h", " ", "f", "o", "r", " ", "p", "a", "t", "t", "e", "r", "n", "s", " ", "i", "n", " ", "f", "i", "l", "e", "s">>),
            None),
      Entry(<<"find">>, SAFE,
            Some(<<"F", "i", "n", "d", " ", "f", "i", "l", "e", "s", " ", "i", "n", " ", "a", " ", "d", "i", "r", "e", "c", "t", "o", "r", "y", " ", "h", "i", "e", "r", "a", "r", "c", "h", "y">>),
            None),
      Entry(<<"cd">>, SAFE,
            Some(<<"C", "h", "a", "n", "g", "e", " ", "d", "i", "r", "e", "c", "t", "o", "r", "y">>),
            None),
      Entry(<<"head">>, SAFE,
            Some(<<"O", "u", "t", "p", "u", "t", " ", "t", "h", "e", " ", "f", "i", "r", "s", "t", " ", "p", "a", "r", "t", " ", "o", "f", " ", "f", "i", "l", "e", "s">>),
            None),
      Entry(<<"tail">>, SAFE,
            Some(<<"O", "u", "t", "p", "u", "t", " ", "t", "h", "e", " ", "l", "a", "s", "t", " ", "p", "a", "r", "t", " ", "o", "f", " ", "f", "i", "l", "e", "s">>),
            None),
      Entry(<<"wc">>, SAFE,
            Some(<<"P", "r", "i", "n", "t", " ", "n", "e", "w", "l", "i", "n", "e", ",", " ", "w", "o", "r", "d", ",", " ", "a", "n", "d", " ", "b", "y", "t", "e", " ", "c", "o", "u", "n", "t", "s">>),
            None)
   >>

get_windows_approval_commands ==
   <<
      Entry(<<"copy">>, REQUIRES_APPROVAL,
            Some(<<"C", "o", "p", "y", " ", "f", "i", "l", "e", "s">>),
            None),
      Entry(<<"move">>, REQUIRES_APPROVAL,
            Some(<<"M", "o", "v", "e", " ", "f", "i", "l", "e", "s">>),
            None),
      Entry(<<"mkdir">>, REQUIRES_APPROVAL,
            Some(<<"C", "r", "e", "a", "t", "e", " ", "d", "i", "r", "e", "c", "t", "o", "r", "i", "e", "s">>),
            None),
      Entry(<<"rmdir">>, REQUIRES_APPROVAL,
            Some(<<"R", "e", "m", "o", "v", "e", " ", "d", "i", "r", "e", "c", "t", "o", "r", "i", "e", "s">>),
            None),
      Entry(<<"rename">>, REQUIRES_APPROVAL,
            Some(<<"R", "e", "n", "a", "m", "e", " ", "f", "i", "l", "e", "s">>),
            None),
      Entry(<<"attrib">>, REQUIRES_APPROVAL,
            Some(<<"C", "h", "a", "n", "g", "e", " ", "f", "i", "l", "e", " ", "a", "t", "t", "r", "i", "b", "u", "t", "e", "s">>),
            None)
   >>

get_macos_approval_commands ==
   <<
      Entry(<<"mv">>, REQUIRES_APPROVAL,
            Some(<<"M", "o", "v", "e", " ", "(", "r", "e", "n", "a", "m", "e", ")", " ", "f", "i", "l", "e", "s">>),
            None),
      Entry(<<"cp">>, REQUIRES_APPROVAL,
            Some(<<"C", "o", "p", "y", " ", "f", "i", "l", "e", "s", " ", "a", "n", "d", " ", "d", "i", "r", "e", "c", "t", "o", "r", "i", "e", "s">>),
            None),
      Entry(<<"mkdir">>, REQUIRES_APPROVAL,
            Some(<<"C", "r", "e", "a", "t", "e", " ", "d", "i", "r", "e", "c", "t", "o", "r", "i", "e", "s">>),
            None),
      Entry(<<"touch">>, REQUIRES_APPROVAL,
            Some(<<"C", "h", "a", "n", "g", "e", " ", "f", "i", "l", "e", " ", "t", "i", "m", "e", "s", "t", "a", "m", "p", "s", " ", "o", "r", " ", "c", "r", "e", "a", "t", "e", " ", "e", "m", "p", "t", "y", " ", "f", "i", "l", "e", "s">>),
            None),
      Entry(<<"chmod">>, REQUIRES_APPROVAL,
            Some(<<"C", "h", "a", "n", "g", "e", " ", "f", "i", "l", "e", " ", "m", "o", "d", "e", " ", "b", "i", "t", "s">>),
            None),
      Entry(<<"chown">>, REQUIRES_APPROVAL,
            Some(<<"C", "h", "a", "n", "g", "e", " ", "f", "i", "l", "e", " ", "o", "w", "n", "e", "r", " ", "a", "n", "d", " ", "g", "r", "o", "u", "p">>),
            None)
   >>

get_windows_forbidden_commands ==
   <<
      Entry(<<"del">>, FORBIDDEN,
            Some(<<"D", "e", "l", "e", "t", "e", " ", "f", "i", "l", "e", "s">>),
            None),
      Entry(<<"erase">>, FORBIDDEN,
            Some(<<"D", "e", "l", "e", "t", "e", " ", "f", "i", "l", "e", "s">>),
            None),
      Entry(<<"format">>, FORBIDDEN,
            Some(<<"F", "o", "r", "m", "a", "t", " ", "a", " ", "d", "i", "s", "k">>),
            None),
      Entry(<<"runas">>, FORBIDDEN,
            Some(<<"E", "x", "e", "c", "u", "t", "e", " ", "a", " ", "p", "r", "o", "g", "r", "a", "m", " ", "a", "s", " ", "a", "n", "o", "t", "h", "e", "r", " ", "u", "s", "e", "r">>),
            None)
   >>

get_macos_forbidden_commands ==
   <<
      Entry(<<"rm">>, FORBIDDEN,
            Some(<<"R", "e", "m", "o", "v", "e", " ", "f", "i", "l", "e", "s", " ", "o", "r", " ", "d", "i", "r", "e", "c", "t", "o", "r", "i", "e", "s">>),
            None),
      Entry(<<"sudo">>, FORBIDDEN,
            Some(<<"E", "x", "e", "c", "u", "t", "e", " ", "a", " ", "c", "o", "m", "m", "a", "n", "d", " ", "a", "s", " ", "a", "n", "o", "t", "h", "e", "r", " ", "u", "s", "e", "r">>),
            None)
   >>

get_linux_safe_commands == get_macos_safe_commands
get_linux_approval_commands == get_macos_approval_commands
get_linux_forbidden_commands == get_macos_forbidden_commands

\* [*common_safe_commands, *safe_commands, *approval_commands, *forbidden_commands]
get_platform_specific_commands(p) ==
    IF p = WINDOWS
    THEN get_common_safe_commands \o get_windows_safe_commands
         \o get_windows_approval_commands \o get_windows_forbidden_commands
    ELSE IF p = MACOS
    THEN get_common_safe_commands \o get_macos_safe_commands
         \o get_macos_approval_commands \o get_macos_forbidden_commands
    ELSE get_common_safe_commands \o get_linux_safe_commands
         \o get_linux_approval_commands \o get_linux_forbidden_commands

\* for entry in platform_commands: self.whitelist[base] = entry
\* (a later entry of the list overwrites an earlier one under the same key)
_initialize_default_whitelist(p) ==
    LET cmds == get_platform_specific_commands(p)
        keys == {base_command(cmds[i].command) : i \in 1..Len(cmds)}
        last(k) == CHOOSE i \in 1..Len(cmds) :
                      /\ base_command(cmds[i].command) = k
                      /\ \A j \in 1..Len(cmds) :
                            base_command(cmds[j].command) = k => j <= i
    IN  [k \in keys |-> cmds[last(k)]]

----------------------------------------------------------------------------
(* Validator *)

\* A faulty variant of _validate_command (sensitivity of C7): a command
\* with no registry entry is let through as SAFE.
_validate_command_fail_open(wl, command, args) ==
    LET base == base_command(command)
    IN  IF base \notin DOMAIN wl THEN SAFE
        ELSE LET entry == wl[base]
             IN  IF entry.security_level = FORBIDDEN THEN FORBIDDEN
                 ELSE IF /\ Truthy(entry.allowed_args)
                         /\ \/ Len(args) > Len(entry.allowed_args[1])
                            \/ \E idx \in 1..Len(args) :
                                  args[idx] # entry.allowed_args[1][idx]
                      THEN REQUIRES_APPROVAL
                      ELSE entry.security_level

\* A faulty variant of _validate_command (sensitivity of C27): an argument
\* list that fills every position of allowed_args is escalated.
_validate_command_strict(wl, command, args) ==
    LET base == base_command(command)
    IN  IF base \notin DOMAIN wl THEN NotWhitelisted
        ELSE LET entry == wl[base]
             IN  IF entry.security_level = FORBIDDEN THEN FORBIDDEN
                 ELSE IF /\ Truthy(entry.allowed_args)
                         /\ \/ Len(args) >= Len(entry.allowed_args[1])
                            \/ \E idx \in 1..Len(args) : args[idx] # entry.allowed_args[1][idx]
                      THEN REQUIRES_APPROVAL
                      ELSE entry.security_level

\* A faulty variant of _validate_command (sensitivity of C28): an entry
\* without allowed_args escalates every non-empty argument list.
_validate_command_args_suspect(wl, command, args) ==
    LET base == base_command(command)
    IN  IF base \notin DOMAIN wl THEN NotWhitelisted
        ELSE LET entry == wl[base]
             IN  IF entry.security_level = FORBIDDEN THEN FORBIDDEN
                 ELSE IF \/ IsNone(entry.allowed_args) /\ args # <<>>
                         \/ /\ Truthy(entry.allowed_args)
                            /\ \/ Len(args) > Len(entry.allowed_args[1])
                               \/ \E idx \in 1..Len(args) : args[idx] # entry.allowed_args[1][idx]
                      THEN REQUIRES_APPROVAL
                      ELSE entry.security_level


_validate_command(wl, command, args) ==
    LET base == base_command(command)
    IN  IF base \notin DOMAIN wl THEN NotWhitelisted
        ELSE LET entry == wl[base]
             IN  IF entry.security_level = FORBIDDEN THEN FORBIDDEN
                 ELSE IF /\ Truthy(entry.allowed_args)
                         /\ \/ Len(args) > Len(entry.allowed_args[1])
                            \/ \E idx \in 1..Len(args) :
                                  args[idx] # entry.allowed_args[1][idx]
                      THEN REQUIRES_APPROVAL
                      ELSE entry.security_level

----------------------------------------------------------------------------
(* Records of the state *)

Ids == 1..MaxIds

\* CommandResult(stdout, stderr)
CommandResult(stdout, stderr) == [stdout |-> stdout, stderr |-> stderr]
NoResult == CommandResult("", "")

\* What the child process can do once spawned: exit with status 0, exit
\* with a non-zero status, or outlive the timeout.
Completions == {"exit0", "exit_nonzero", "timeout"}
ResultOf(completion) ==
    IF completion = "exit0" THEN CommandResult("out", "")
    ELSE CommandResult("", "err")

\* requested_by: Optional[str] = None
NoRequester == "None"

\* PendingCommand; resolve/reject act on fut[id] when blocking and are the
\* no-op lambdas otherwise.
PendingCommand(id, command, args, requested_by, blocking) ==
    [id |-> id, command |-> command, args |-> args,
     requested_by |-> requested_by, blocking |-> blocking]

\* self._listeners[event]: the callbacks on() registered, in order.
Listeners == <<"first", "second">>

\* A faulty variant of deliver (sensitivity of C25): no try/except around
\* the callback, so the first one that raises ends the loop and emit raises.
RECURSIVE deliver_unprotected(_, _)
deliver_unprotected(listeners, bad) ==
    IF listeners = <<>> THEN [called |-> <<>>, raised |-> FALSE]
    ELSE IF Head(listeners) \in bad
         THEN [called |-> <<Head(listeners)>>, raised |-> TRUE]
         ELSE LET rest == deliver_unprotected(Tail(listeners), bad)
              IN  [called |-> <<Head(listeners)>> \o rest.called,
                   raised |-> rest.raised]

\* The loop of emit: for cb in list(listeners): try: cb(...) except
\* Exception: pass.  bad: the callbacks that raise (an Exception).  Gives
\* the callbacks that were called and whether emit itself raised.
RECURSIVE deliver(_, _)
deliver(listeners, bad) ==
    IF listeners = <<>> THEN [called |-> <<>>, raised |-> FALSE]
    ELSE LET rest == deliver(Tail(listeners), bad)
         IN  [called |-> <<Head(listeners)>> \o rest.called,
              raised |-> rest.raised]

\* Whether a call of emit in the current state raises into its caller.
emit_raises == deliver(Listeners, raising).raised

\* The subscriber's exception, as the caller of emit would see it.
SubscriberError == "Exception: raised by a subscriber"

\* An event as emit() publishes it: its name, its payload, and the
\* callbacks it was delivered to.
Event(type, id, stdout, stderr, text, record) ==
    [type |-> type, commandId |-> id, stdout |-> stdout, stderr |-> stderr,
     text |-> text, record |-> record,
     delivered |-> deliver(Listeners, raising).called]

\* What a call returned or raised: "result" with the CommandResult, the
\* error, or how the call stands ("queued", "suspended", "running", "none").
Call(response, result) ==
    [response |-> response, result |-> result, child |-> "none", id |-> 0]

\* return cmd_id
Queued(cmd_id) ==
    [response |-> "queued", result |-> NoResult, child |-> "none", id |-> cmd_id]

\* The end of a call that awaited a child process: how the call ended, and
\* how it leaves the child ("exited", "killed", or still "running").
Ended(response, result, child) ==
    [response |-> response, result |-> result, child |-> child, id |-> 0]

\* A coroutine suspended inside _run_now.
Run(caller, id, command, args, timeout) ==
    [caller |-> caller, id |-> id, command |-> command, args |-> args,
     timeout |-> timeout]

NoFuture == [state |-> "none", result |-> NoResult, error |-> "", awaited |-> FALSE]

----------------------------------------------------------------------------
(* Construction *)

InitOn(p) ==
    /\ platform = p
    /\ whitelist = _initialize_default_whitelist(p)
    /\ pending_commands = [i \in {} |-> PendingCommand(i, <<>>, <<>>, NoRequester, FALSE)]
    /\ uuids = 0
    /\ events = [i \in Ids |-> <<>>]
    /\ fut = [i \in Ids |-> NoFuture]
    /\ timers = [i \in Ids |-> "none"]
    /\ runs = EmptyBag
    /\ runsStarted = [i \in Ids |-> 0]
    /\ lastCall = Call("none", NoResult)


----------------------------------------------------------------------------
(* Helpers of the operations *)

\* EventEmitter.emit: deliver to the subscribers; the stream of one id.
emit(ev, id, e) == [ev EXCEPT ![id] = Append(@, e)]

\* dict.pop(command_id, None)
pop(pc, id) == [k \in DOMAIN pc \ {id} |-> pc[k]]

\* A faulty variant of resolve (sensitivity of C19): the result is set
\* whether or not the future is already done.
resolve_unguarded(f, id, res) ==
    IF f[id].state # "none"
    THEN [f EXCEPT ![id].state = "result", ![id].result = res]
    ELSE f

\* resolve(res): if not fut.done(): fut.set_result(res); the non-blocking
\* record's resolve is lambda _res: None.
resolve(f, id, res) ==
    IF f[id].state = "pending"
    THEN [f EXCEPT ![id].state = "result", ![id].result = res]
    ELSE f

\* A faulty variant of reject (sensitivity of C11): the error never reaches
\* the future.
reject_ignored(f, id, err) == f

\* reject(err): if not fut.done(): fut.set_exception(err)
reject(f, id, err) ==
    IF f[id].state = "pending"
    THEN [f EXCEPT ![id].state = "exception", ![id].error = err]
    ELSE f

\* The text of the error a run that outlives its timeout raises: the
\* handler of asyncio.TimeoutError names contextlib, which the module never
\* imports, so the NameError replaces the RuntimeError the handler builds
\* and proc.kill() is not reached.
TimeoutError == "NameError: name 'contextlib' is not defined"

\* raise RuntimeError("Command execution failed: timeout"), the line the
\* handler does not reach.
Timeout == "Command execution failed: timeout"

\* _run_now from `except asyncio.TimeoutError` on: wait_for has cancelled
\* communicate(), the child is still running, and the handler raises.
TimedOut == Ended(TimeoutError, NoResult, "running")

\* _run_now after communicate() returned: the child has exited.
Exited(completion) == Ended("result", ResultOf(completion), "exited")
SpawnError == "OSError: spawn failed"

\* CommandService(default_timeout=30_000)
default_timeout == 30000

\* timeout if timeout is not None else self.default_timeout
timeout_ms(timeout) == IF IsNone(timeout) THEN default_timeout ELSE timeout[1]

\* How many of the suspended runs a given caller started.
RunCount(b, caller) ==
    LET mine == {r \in BagToSet(b) : r.caller = caller}
    IN  BagCardinality([r \in mine |-> b[r]])


----------------------------------------------------------------------------
(* Whitelist management *)

\* A faulty variant of add_to_whitelist (sensitivity of C22): an entry
\* already present is kept (first write wins).
add_to_whitelist_keeps_first(entry) ==
    /\ whitelist' = whitelist @@ (entry.command :> entry)
    /\ lastCall' = Call("none", NoResult)
    /\ UNCHANGED <<platform, raising, pending_commands, uuids, events, fut, timers,
                   runs, runsStarted>>

\* self.whitelist[entry.command] = entry
add_to_whitelist(entry) ==
    /\ whitelist' = (entry.command :> entry) @@ whitelist
    /\ lastCall' = Call("none", NoResult)
    /\ UNCHANGED <<platform, raising, pending_commands, uuids, events, fut, timers,
                   runs, runsStarted>>

\* A faulty variant of remove_from_whitelist (sensitivity of C21): the
\* pending records of the removed command go with it.
remove_from_whitelist_purges(command) ==
    /\ whitelist' = [k \in DOMAIN whitelist \ {command} |-> whitelist[k]]
    /\ pending_commands' =
          [k \in {i \in DOMAIN pending_commands :
                    pending_commands[i].command # command} |-> pending_commands[k]]
    /\ lastCall' = Call("none", NoResult)
    /\ UNCHANGED <<platform, raising, uuids, events, fut, timers, runs, runsStarted>>

\* self.whitelist.pop(command, None)
remove_from_whitelist(command) ==
    /\ whitelist' = [k \in DOMAIN whitelist \ {command} |-> whitelist[k]]
    /\ lastCall' = Call("none", NoResult)
    /\ UNCHANGED <<platform, raising, pending_commands, uuids, events, fut, timers,
                   runs, runsStarted>>

\* A faulty variant of update_security_level (sensitivity of C24): an
\* absent command gets an entry of the requested level.
update_security_level_creates(command, security_level) ==
    /\ whitelist' = IF command \in DOMAIN whitelist
                    THEN [whitelist EXCEPT ![command].security_level = security_level]
                    ELSE (command :> Entry(command, security_level, None, None)) @@ whitelist
    /\ lastCall' = Call("none", NoResult)
    /\ UNCHANGED <<platform, raising, pending_commands, uuids, events, fut, timers,
                   runs, runsStarted>>

\* A faulty variant of update_security_level (sensitivity of C34): the
\* entry is rebuilt from the command and the level, losing its allowed_args.
update_security_level_resets(command, security_level) ==
    /\ whitelist' = IF command \in DOMAIN whitelist
                    THEN [whitelist EXCEPT ![command] =
                            Entry(command, security_level, None, @.description)]
                    ELSE whitelist
    /\ lastCall' = Call("none", NoResult)
    /\ UNCHANGED <<platform, raising, pending_commands, uuids, events, fut, timers,
                   runs, runsStarted>>

\* entry = self.whitelist.get(command); if entry: entry.security_level = ...
update_security_level(command, security_level) ==
    /\ whitelist' = IF command \in DOMAIN whitelist
                    THEN [whitelist EXCEPT ![command].security_level = security_level]
                    ELSE whitelist
    /\ lastCall' = Call("none", NoResult)
    /\ UNCHANGED <<platform, raising, pending_commands, uuids, events, fut, timers,
                   runs, runsStarted>>

----------------------------------------------------------------------------
(* The approval queue: the two entry modes *)

\* A faulty variant of Enqueue (sensitivity of C15): the id generator
\* repeats itself, so a queue call can land on an id handed out before.
Enqueue_repeated_id(command, args, requested_by, blocking) ==
    LET cmd_id == 1
        pending == PendingCommand(cmd_id, command, args, requested_by, blocking)
    IN  /\ uuids' = uuids + 1
        /\ pending_commands' = (cmd_id :> pending) @@ pending_commands
        /\ events' = emit(events, cmd_id,
                          Event("command:pending", cmd_id, "", "", "", Some(pending)))
        /\ timers' = [timers EXCEPT ![cmd_id] = "scheduled"]
        /\ fut' = IF blocking
                  THEN [fut EXCEPT ![cmd_id] =
                          [state |-> "pending", result |-> NoResult,
                           error |-> "", awaited |-> TRUE]]
                  ELSE fut

\* The part the two queue operations share: a fresh id, the record, the
\* `pending` event, the 5-second timer.
Enqueue(command, args, requested_by, blocking) ==
    LET cmd_id == uuids + 1
        pending == PendingCommand(cmd_id, command, args, requested_by, blocking)
    IN  /\ uuids' = cmd_id
        /\ pending_commands' = (cmd_id :> pending) @@ pending_commands
        /\ events' = emit(events, cmd_id,
                          Event("command:pending", cmd_id, "", "", "", Some(pending)))
        \* an exception out of emit leaves the call before call_later and
        \* before `await fut`
        /\ timers' = IF emit_raises THEN timers
                     ELSE [timers EXCEPT ![cmd_id] = "scheduled"]
        /\ fut' = IF blocking
                  THEN [fut EXCEPT ![cmd_id] =
                          [state |-> "pending", result |-> NoResult,
                           error |-> "", awaited |-> ~emit_raises]]
                  ELSE fut

\* A faulty variant of queue_command_for_approval_non_blocking (sensitivity
\* of C18): the call allocates a future and waits on it.
queue_command_for_approval_awaits(command, args, requested_by) ==
    /\ Enqueue(command, args, requested_by, TRUE)
    /\ lastCall' = Call("suspended", NoResult)
    /\ UNCHANGED <<platform, raising, whitelist, runs, runsStarted>>

\* queue_command_for_approval_non_blocking: returns cmd_id
queue_command_for_approval_non_blocking(command, args, requested_by) ==
    /\ Enqueue(command, args, requested_by, FALSE)
    /\ lastCall' = IF emit_raises THEN Call(SubscriberError, NoResult)
                   ELSE Queued(uuids')
    /\ UNCHANGED <<platform, raising, whitelist, runs, runsStarted>>

\* A faulty variant of _queue_command_for_approval (sensitivity of C30):
\* the record does not carry who requested it.
_queue_command_for_approval_anonymous(command, args, requested_by) ==
    /\ Enqueue(command, args, NoRequester, TRUE)
    /\ lastCall' = Call("suspended", NoResult)
    /\ UNCHANGED <<platform, raising, whitelist, runs, runsStarted>>

\* _queue_command_for_approval: suspends on `await fut`
_queue_command_for_approval(command, args, requested_by) ==
    /\ Enqueue(command, args, requested_by, TRUE)
    /\ lastCall' = IF emit_raises THEN Call(SubscriberError, NoResult)
                   ELSE Call("suspended", NoResult)
    /\ UNCHANGED <<platform, raising, whitelist, runs, runsStarted>>

----------------------------------------------------------------------------
(* Execution *)

\* A faulty variant of execute_command (sensitivity of C9): a SAFE request
\* is queued for approval like a REQUIRES_APPROVAL one.
execute_command_queues_safe(command, args, timeout, requested_by, spawn_ok) ==
    LET security_level == _validate_command(whitelist, command, args)
    IN  IF security_level \in {SAFE, REQUIRES_APPROVAL}
        THEN _queue_command_for_approval(command, args, requested_by)
        ELSE /\ lastCall' = Call(IF security_level = FORBIDDEN THEN "Forbidden"
                                 ELSE "NotWhitelisted", NoResult)
             /\ UNCHANGED <<platform, raising, whitelist, pending_commands, uuids, events,
                            fut, timers, runs, runsStarted>>

\* A faulty variant of execute_command (sensitivity of C33): a lock
\* serializes the runs, and a SAFE request made while a child is running is
\* turned away.
execute_command_serialized(command, args, timeout, requested_by, spawn_ok) ==
    LET security_level == _validate_command(whitelist, command, args)
    IN  IF security_level = REQUIRES_APPROVAL
        THEN _queue_command_for_approval(command, args, requested_by)
        ELSE /\ runs' = IF security_level = SAFE /\ spawn_ok /\ runs = EmptyBag
                        THEN SetToBag({Run("execute_command", 0, command, args,
                                           timeout_ms(timeout))})
                        ELSE runs
             /\ lastCall' = Call(IF security_level = NotWhitelisted THEN "NotWhitelisted"
                                 ELSE IF security_level = FORBIDDEN THEN "Forbidden"
                                 ELSE IF ~spawn_ok THEN SpawnError
                                 ELSE IF runs = EmptyBag THEN "running"
                                 ELSE "busy", NoResult)
             /\ UNCHANGED <<platform, raising, whitelist, pending_commands, uuids,
                            events, fut, timers, runsStarted>>

\* execute_command up to its first suspension.  spawn_ok: whether
\* asyncio.create_subprocess_exec starts the child; a spawn failure is raised
\* before the coroutine ever suspends.
execute_command(command, args, timeout, requested_by, spawn_ok) ==
    LET security_level == _validate_command(whitelist, command, args)
    IN  IF security_level = NotWhitelisted
        THEN /\ lastCall' = Call("NotWhitelisted", NoResult)
             /\ UNCHANGED <<platform, raising, whitelist, pending_commands, uuids, events,
                            fut, timers, runs, runsStarted>>
        ELSE IF security_level = FORBIDDEN
        THEN /\ lastCall' = Call("Forbidden", NoResult)
             /\ UNCHANGED <<platform, raising, whitelist, pending_commands, uuids, events,
                            fut, timers, runs, runsStarted>>
        ELSE IF security_level = REQUIRES_APPROVAL
        THEN _queue_command_for_approval(command, args, requested_by)
        ELSE \* SAFE: execute immediately
             IF spawn_ok
             THEN /\ runs' = runs (+) SetToBag({Run("execute_command", 0, command, args, timeout_ms(timeout))})
                  /\ lastCall' = Call("running", NoResult)
                  /\ UNCHANGED <<platform, raising, whitelist, pending_commands, uuids,
                                 events, fut, timers, runsStarted>>
             ELSE /\ lastCall' = Call(SpawnError, NoResult)
                  /\ UNCHANGED <<platform, raising, whitelist, pending_commands, uuids,
                                 events, fut, timers, runs, runsStarted>>

\* The SAFE run resumes: the child has exited, or the timeout has expired.
execute_command_resume(r, completion) ==
    /\ BagIn(r, runs)
    /\ r.caller = "execute_command"
    /\ runs' = runs (-) SetToBag({r})
    /\ lastCall' = IF completion = "timeout" THEN TimedOut ELSE Exited(completion)
    /\ UNCHANGED <<platform, raising, whitelist, pending_commands, uuids, events, fut,
                   timers, runsStarted>>

\* A faulty variant of approve_command (sensitivity of C31): the recorded
\* command is classified again, and an approval of a command the whitelist
\* no longer lets through is refused.
approve_command_revalidates(command_id, spawn_ok) ==
    IF command_id \notin DOMAIN pending_commands
    THEN /\ lastCall' = Call("NotFound", NoResult)
         /\ UNCHANGED <<platform, raising, whitelist, pending_commands, uuids, events,
                        fut, timers, runs, runsStarted>>
    ELSE LET pending == pending_commands[command_id]
             security_level == _validate_command(whitelist, pending.command, pending.args)
         IN  IF security_level \in {FORBIDDEN, NotWhitelisted}
             THEN /\ lastCall' = Call("Forbidden", NoResult)
                  /\ UNCHANGED <<platform, raising, whitelist, pending_commands, uuids,
                                 events, fut, timers, runs, runsStarted>>
             ELSE /\ IF spawn_ok
                     THEN /\ runsStarted' = [runsStarted EXCEPT ![command_id] = @ + 1]
                          /\ runs' = runs (+) SetToBag({Run("approve_command", command_id,
                                         pending.command, pending.args, timeout_ms(None))})
                          /\ lastCall' = Call("running", NoResult)
                          /\ UNCHANGED <<pending_commands, events, fut>>
                     ELSE /\ pending_commands' = pop(pending_commands, command_id)
                          /\ events' = emit(events, command_id,
                                 Event("command:failed", command_id, "", "", SpawnError, None))
                          /\ fut' = reject(fut, command_id, SpawnError)
                          /\ lastCall' = Call(SpawnError, NoResult)
                          /\ UNCHANGED <<runs, runsStarted>>
                  /\ UNCHANGED <<platform, raising, whitelist, uuids, timers>>

\* approve_command up to its first suspension: the lookup, then _run_now up
\* to the spawn.  The record stays in pending_commands while the run is
\* suspended; it is popped when the run resumes.
approve_command(command_id, spawn_ok) ==
    IF command_id \notin DOMAIN pending_commands
    THEN /\ lastCall' = Call("NotFound", NoResult)
         /\ UNCHANGED <<platform, raising, whitelist, pending_commands, uuids, events,
                        fut, timers, runs, runsStarted>>
    ELSE LET pending == pending_commands[command_id]
         IN  /\ IF spawn_ok
                THEN /\ runsStarted' = [runsStarted EXCEPT ![command_id] = @ + 1]
                     /\ runs' = runs (+) SetToBag({Run("approve_command", command_id,
                                    pending.command, pending.args, timeout_ms(None))})
                     /\ lastCall' = Call("running", NoResult)
                     /\ UNCHANGED <<pending_commands, events, fut>>
                ELSE \* except Exception as e: pop, emit failed, reject, raise
                     /\ pending_commands' = pop(pending_commands, command_id)
                     /\ events' = emit(events, command_id,
                            Event("command:failed", command_id, "", "", SpawnError, None))
                     /\ fut' = IF emit_raises THEN fut
                               ELSE reject(fut, command_id, SpawnError)
                     /\ lastCall' = IF emit_raises
                                    THEN Call(SubscriberError, NoResult)
                                    ELSE Call(SpawnError, NoResult)
                     /\ UNCHANGED <<runs, runsStarted>>
             /\ UNCHANGED <<platform, raising, whitelist, uuids, timers>>

\* approve_command resumes after `await self._run_now(...)`.
approve_command_resume(r, completion) ==
    /\ BagIn(r, runs)
    /\ r.caller = "approve_command"
    /\ runs' = runs (-) SetToBag({r})
    /\ pending_commands' = pop(pending_commands, r.id)
    /\ IF completion = "timeout"
       THEN /\ events' = emit(events, r.id,
                    Event("command:failed", r.id, "", "", TimeoutError, None))
            /\ fut' = IF emit_raises THEN fut ELSE reject(fut, r.id, TimeoutError)
            /\ lastCall' = IF emit_raises
                           THEN Ended(SubscriberError, NoResult, "running")
                           ELSE TimedOut
       ELSE LET result == ResultOf(completion)
                approved == emit(events, r.id,
                        Event("command:approved", r.id, result.stdout, result.stderr, "", None))
            IN  IF emit_raises
                THEN \* the exception lands in `except Exception as e`,
                     \* whose emit raises in turn
                     /\ events' = emit(approved, r.id,
                            Event("command:failed", r.id, "", "", SubscriberError, None))
                     /\ fut' = fut
                     /\ lastCall' = Ended(SubscriberError, NoResult, "exited")
                ELSE /\ events' = approved
                     /\ fut' = resolve(fut, r.id, result)
                     /\ lastCall' = Exited(completion)
    /\ UNCHANGED <<platform, raising, whitelist, uuids, timers, runsStarted>>

\* A faulty variant of deny_command (sensitivity of C10): an unknown id is
\* accepted silently instead of raising.
deny_command_unchecked(command_id, reason) ==
    IF command_id \notin DOMAIN pending_commands
    THEN /\ lastCall' = Call("none", NoResult)
         /\ UNCHANGED <<platform, raising, whitelist, pending_commands, uuids, events,
                        fut, timers, runs, runsStarted>>
    ELSE /\ pending_commands' = pop(pending_commands, command_id)
         /\ events' = emit(events, command_id,
                Event("command:denied", command_id, "", "", reason, None))
         /\ fut' = reject(fut, command_id, reason)
         /\ lastCall' = Call("none", NoResult)
         /\ UNCHANGED <<platform, raising, whitelist, uuids, timers, runs, runsStarted>>

deny_command(command_id, reason) ==
    IF command_id \notin DOMAIN pending_commands
    THEN /\ lastCall' = Call("NotFound", NoResult)
         /\ UNCHANGED <<platform, raising, whitelist, pending_commands, uuids, events,
                        fut, timers, runs, runsStarted>>
    ELSE LET pending == pending_commands[command_id]
         IN  /\ pending_commands' = pop(pending_commands, command_id)
             /\ events' = emit(events, command_id,
                    Event("command:denied", command_id, "", "", reason, None))
             /\ fut' = IF emit_raises THEN fut ELSE reject(fut, command_id, reason)
             /\ lastCall' = IF emit_raises THEN Call(SubscriberError, NoResult)
                            ELSE Call("none", NoResult)
             /\ UNCHANGED <<platform, raising, whitelist, uuids, timers, runs, runsStarted>>

\* A faulty variant of _timeout_check (sensitivity of C17): the timer fires
\* and publishes nothing.
_timeout_check_silent(cmd_id) ==
    /\ timers[cmd_id] = "scheduled"
    /\ timers' = [timers EXCEPT ![cmd_id] = "fired"]
    /\ lastCall' = Call("none", NoResult)
    /\ UNCHANGED <<platform, raising, whitelist, pending_commands, uuids, events, fut,
                   runs, runsStarted>>

\* A faulty variant of _timeout_check (sensitivity of C16): the
\* timer expires the record it finds still pending.
_timeout_check_expires(cmd_id) ==
    /\ timers[cmd_id] = "scheduled"
    /\ timers' = [timers EXCEPT ![cmd_id] = "fired"]
    /\ events' = IF cmd_id \in DOMAIN pending_commands
                 THEN emit(events, cmd_id,
                        Event("command:approval_timeout", cmd_id, "", "",
                              "Command approval timed out.", None))
                 ELSE events
    /\ pending_commands' = pop(pending_commands, cmd_id)
    /\ lastCall' = Call("none", NoResult)
    /\ UNCHANGED <<platform, raising, whitelist, uuids, fut, runs, runsStarted>>

\* The call_later(5.0, _timeout_check) callback of either queue operation.
_timeout_check(cmd_id) ==
    /\ timers[cmd_id] = "scheduled"
    /\ timers' = [timers EXCEPT ![cmd_id] = "fired"]
    /\ events' = IF cmd_id \in DOMAIN pending_commands
                 THEN emit(events, cmd_id,
                        Event("command:approval_timeout", cmd_id, "", "",
                              "Command approval timed out.", None))
                 ELSE events
    /\ lastCall' = Call("none", NoResult)
    /\ UNCHANGED <<platform, raising, whitelist, pending_commands, uuids, fut, runs,
                   runsStarted>>

\* `return await fut`: the blocking execute_command call resumes once its
\* future is done.
_queue_command_for_approval_resume(cmd_id) ==
    /\ fut[cmd_id].state \in {"result", "exception"}
    /\ fut[cmd_id].awaited
    /\ fut' = [fut EXCEPT ![cmd_id].awaited = FALSE]
    /\ lastCall' = IF fut[cmd_id].state = "result"
                   THEN Call("result", fut[cmd_id].result)
                   ELSE Call(fut[cmd_id].error, NoResult)
    /\ UNCHANGED <<platform, raising, whitelist, pending_commands, uuids, events, timers,
                   runs, runsStarted>>

----------------------------------------------------------------------------
(* The execute_command tool (main.py) *)

\* next((e for e in whitelist if e.command == base_command), None)
wl_entry(wl, base) ==
    LET ks == {k \in DOMAIN wl : wl[k].command = base}
    IN  IF ks = {} THEN None ELSE Some(wl[CHOOSE k \in ks : TRUE])

\* if wl_entry and wl_entry.security_level == REQUIRES_APPROVAL
ToolQueues(command) ==
    LET e == wl_entry(whitelist, os_path_basename(platform, command))
    IN  ~IsNone(e) /\ e[1].security_level = REQUIRES_APPROVAL

tool_execute_command(command, args, spawn_ok) ==
        IF ToolQueues(command)
        THEN queue_command_for_approval_non_blocking(command, args, NoRequester)
        ELSE execute_command(command, args, None, NoRequester, spawn_ok)

----------------------------------------------------------------------------
(* The requests of the environment.  A record of input sets and limits     *)
(* says which requests a specification lets the callers make.              *)

\* 0 is an id no queue call ever generated.
IdInputs == 0..MaxIds

----------------------------------------------------------------------------
(* Actions *)

AddToWhitelist(I) ==
    \E entry \in I.entries : add_to_whitelist(entry)

RemoveFromWhitelist(I) ==
    \E command \in I.removals : remove_from_whitelist(command)

UpdateSecurityLevel(I) ==
    \E command \in I.updates, level \in CommandSecurityLevel :
        update_security_level(command, level)

\* The limits under which execute_command(command, args) may be called.
CanExecute(I, command, args, spawn_ok) ==
    LET security_level == _validate_command(whitelist, command, args)
    IN  /\ security_level = REQUIRES_APPROVAL => uuids < I.maxIds
        /\ security_level = SAFE /\ spawn_ok
              => RunCount(runs, "execute_command") < I.maxSafeRuns

ExecuteCommand(I) ==
    \E command \in I.commands, args \in I.args, timeout \in I.timeouts,
       requested_by \in I.requesters, spawn_ok \in BOOLEAN :
        /\ CanExecute(I, command, args, spawn_ok)
        /\ execute_command(command, args, timeout, requested_by, spawn_ok)

ExecuteCommandResume(I) ==
    \E r \in BagToSet(runs), completion \in I.completions :
        execute_command_resume(r, completion)

QueueNonBlocking(I) ==
    \E command \in I.queued, args \in I.args, requested_by \in I.requesters :
        /\ uuids < I.maxIds
        /\ queue_command_for_approval_non_blocking(command, args, requested_by)

ApproveCommand(I) ==
    \E command_id \in IdInputs, spawn_ok \in BOOLEAN :
        /\ command_id \in DOMAIN pending_commands /\ spawn_ok
              => RunCount(runs, "approve_command") < I.maxApproveRuns
        /\ approve_command(command_id, spawn_ok)

ApproveCommandResume(I) ==
    \E r \in BagToSet(runs), completion \in I.completions :
        approve_command_resume(r, completion)

DenyCommand(I) ==
    \E command_id \in IdInputs, reason \in I.reasons :
        deny_command(command_id, reason)

TimeoutCheck ==
    \E cmd_id \in Ids : _timeout_check(cmd_id)

AwaitFuture ==
    \E cmd_id \in Ids : _queue_command_for_approval_resume(cmd_id)

ToolExecuteCommand(I) ==
    \E command \in I.commands, args \in I.args, spawn_ok \in BOOLEAN :
        /\ ToolQueues(command) => uuids < I.maxIds
        /\ ~ToolQueues(command) => CanExecute(I, command, args, spawn_ok)
        /\ tool_execute_command(command, args, spawn_ok)

NextOn(I) ==
    \/ AddToWhitelist(I)
    \/ RemoveFromWhitelist(I)
    \/ UpdateSecurityLevel(I)
    \/ ExecuteCommand(I)
    \/ ExecuteCommandResume(I)
    \/ QueueNonBlocking(I)
    \/ ApproveCommand(I)
    \/ ApproveCommandResume(I)
    \/ DenyCommand(I)
    \/ TimeoutCheck
    \/ AwaitFuture
    \/ ToolExecuteCommand(I)

----------------------------------------------------------------------------
(* The approval queue under concurrent callers, on a POSIX host.  The      *)
(* whitelist operations remove mkdir, change its level, put it back.        *)

QueueInputs ==
    [ platforms   |-> { LINUX },
      commands    |-> { <<"echo">>, <<"mkdir">> },
      queued      |-> { <<"mkdir">> },
      args        |-> { <<>> },
      timeouts    |-> { None },
      requesters  |-> { NoRequester },
      reasons     |-> { "policy", "Command denied" },
      completions |-> { "exit0", "timeout" },
      entries     |-> { get_macos_approval_commands[3] },
      removals    |-> { <<"mkdir">> },
      updates     |-> { <<"mkdir">> },
      maxIds      |-> MaxQueued,
      maxApproveRuns |-> MaxApproveRuns,
      maxSafeRuns |-> MaxSafeRuns,
      raising     |-> { {} } ]

Init ==
    /\ \E p \in QueueInputs.platforms : InitOn(p)
    /\ raising \in QueueInputs.raising
Next == NextOn(QueueInputs)
Spec == Init /\ [][Next]_vars

\* The event loop runs every callback it has scheduled: a task awaiting a
\* future that is done is resumed.
SpecLive == Spec /\ WF_vars(AwaitFuture)

----------------------------------------------------------------------------
(* Policy: whitelist management and execution requests, no decisions.      *)
(* echo takes every level and argument restriction; rm is FORBIDDEN by     *)
(* default; nope is never whitelisted; "x\rm" can be whitelisted under its  *)
(* full string.                                                            *)

PolicyInputs ==
    [ platforms   |-> { LINUX },
      commands    |-> { <<"echo">>, <<"x", "\\", "rm">>,
                        <<"a", "\\", "b", "/", "nope">> },
      queued      |-> { <<"x", "\\", "rm">> },
      args        |-> { <<>>, <<"L">>, <<"-l">>, <<"L", "L">> },
      timeouts    |-> { None },
      requesters  |-> { "agent" },
      reasons     |-> { "policy" },
      completions |-> { "exit0", "timeout" },
      entries     |-> { Entry(<<"echo">>, l, a, None) :
                          l \in CommandSecurityLevel,
                          a \in { None, Some(<<>>), Some(<<"L">>) } }
                      \cup { Entry(<<"x", "\\", "rm">>, REQUIRES_APPROVAL, None, None) },
      removals    |-> { <<"echo">> },
      updates     |-> { <<"echo">> },
      maxIds      |-> MaxQueued,
      maxApproveRuns |-> MaxApproveRuns,
      maxSafeRuns |-> MaxSafeRuns,
      raising     |-> { {} } ]

InitPolicy ==
    /\ \E p \in PolicyInputs.platforms : InitOn(p)
    /\ raising \in PolicyInputs.raising

NextPolicy ==
    \/ AddToWhitelist(PolicyInputs)
    \/ RemoveFromWhitelist(PolicyInputs)
    \/ UpdateSecurityLevel(PolicyInputs)
    \/ ExecuteCommand(PolicyInputs)
    \/ ExecuteCommandResume(PolicyInputs)
    \/ QueueNonBlocking(PolicyInputs)
    \/ ToolExecuteCommand(PolicyInputs)

SpecPolicy == InitPolicy /\ [][NextPolicy]_vars

----------------------------------------------------------------------------
(* Several queued commands at once: both entry modes, decisions, timers    *)
(* and whitelist changes, every run exiting normally.                      *)

ManyInputs ==
    [ platforms   |-> { LINUX },
      commands    |-> { <<"echo">>, <<"mkdir">> },
      queued      |-> { <<"mkdir">> },
      args        |-> { <<>> },
      timeouts    |-> { None },
      requesters  |-> { NoRequester },
      reasons     |-> { "policy" },
      completions |-> { "exit0" },
      entries     |-> { get_macos_approval_commands[3] },
      removals    |-> { <<"mkdir">> },
      updates     |-> { <<"nope">> },
      maxIds      |-> MaxIds,
      maxApproveRuns |-> MaxQueued,
      maxSafeRuns |-> MaxSafeRuns,
      raising     |-> { {} } ]

InitMany ==
    /\ \E p \in ManyInputs.platforms : InitOn(p)
    /\ raising \in ManyInputs.raising

NextMany == NextOn(ManyInputs)

SpecMany == InitMany /\ [][NextMany]_vars

----------------------------------------------------------------------------
(* The approval queue with subscribers that raise, any set of the           *)
(* registered callbacks raising whenever it is called, and with children    *)
(* that exit with any status or outlive the timeout.                        *)

SubscriberInputs ==
    [ platforms   |-> { LINUX },
      commands    |-> { <<"echo">>, <<"mkdir">> },
      queued      |-> { <<"mkdir">> },
      args        |-> { <<>> },
      timeouts    |-> { None },
      requesters  |-> { NoRequester },
      reasons     |-> { "policy" },
      completions |-> Completions,
      entries     |-> { get_macos_approval_commands[3] },
      removals    |-> { <<"mkdir">> },
      updates     |-> { <<"nope">> },
      maxIds      |-> MaxQueued,
      maxApproveRuns |-> MaxQueued,
      maxSafeRuns |-> MaxSafeRuns,
      raising     |-> SUBSET { Listeners[i] : i \in 1..Len(Listeners) } ]

InitSubscribers ==
    /\ \E p \in SubscriberInputs.platforms : InitOn(p)
    /\ raising \in SubscriberInputs.raising

NextSubscribers == NextOn(SubscriberInputs)

SpecSubscribers == InitSubscribers /\ [][NextSubscribers]_vars

----------------------------------------------------------------------------
(* Vocabulary of the properties *)

\* The base name of a command string: what follows its last separator.
StripPath(c) ==
    LET seps == {i \in 1..Len(c) : c[i] \in {"/", "\\"}}
    IN  IF seps = {} THEN c
        ELSE SubSeq(c, (CHOOSE i \in seps : \A j \in seps : j <= i) + 1, Len(c))

\* The level of the registry entry of a command, "None" when it has none.
RegistryLevel(c) ==
    IF StripPath(c) \in DOMAIN whitelist
    THEN whitelist[StripPath(c)].security_level
    ELSE NotWhitelisted

\* args has more elements than the patterns have positions, or some argument
\* differs from the pattern at its position.
ArgsDeviate(patterns, args) ==
    \/ Len(args) > Len(patterns)
    \/ \E i \in 1..Len(args) : i <= Len(patterns) /\ args[i] # patterns[i]

CountOf(id, types) == Cardinality({i \in 1..Len(events[id]) : events[id][i].type \in types})
Terminal == {"command:approved", "command:denied", "command:failed"}

\* The approve and deny calls on id that passed the lookup: each approve
\* that did spawned a child or published `failed` for the spawn failure,
\* each deny that did published `denied`.
SpawnFailures(id) ==
    Cardinality({i \in 1..Len(events[id]) :
                    /\ events[id][i].type = "command:failed"
                    /\ events[id][i].text = SpawnError})
Winners(id) == runsStarted[id] + SpawnFailures(id) + CountOf(id, {"command:denied"})

ApproveRunning(id) ==
    \E r \in BagToSet(runs) : r.caller = "approve_command" /\ r.id = id

----------------------------------------------------------------------------
(* C1: of the approve and deny calls made on one pending id, one succeeds   *)
(* and every other one fails with NotFound: no id has two calls that        *)
(* passed the lookup.                                                       *)
C1_OneWinner == \A id \in Ids : Winners(id) <= 1

(* C2: at most one Executor run is ever started for an id.                  *)
C2_AtMostOneRun == \A id \in Ids : runsStarted[id] <= 1

(* C3: the events of an id start with `pending`, and at most one of         *)
(* approved, denied, failed is ever published for it.                       *)
C3_CausalOrder ==
    \A id \in Ids :
        /\ events[id] # <<>> => events[id][1].type = "command:pending"
        /\ CountOf(id, Terminal) <= 1

(* C4: while the Executor runs the command of id on behalf of approve, id   *)
(* is absent from the pending mapping.                                      *)
C4_RemovedBeforeRun ==
    \A id \in Ids : ApproveRunning(id) => id \notin DOMAIN pending_commands

(* C5: an entry that is not FORBIDDEN and has allowedArgs set (of any       *)
(* length) classifies as REQUIRES_APPROVAL every argument list that is      *)
(* longer than allowedArgs or differs from it at some position.             *)
C5_EscalateOnUncertainty ==
    \A c \in PolicyInputs.commands, a \in PolicyInputs.args :
        LET k == StripPath(c)
        IN  ( /\ k \in DOMAIN whitelist
              /\ whitelist[k].security_level # FORBIDDEN
              /\ ~IsNone(whitelist[k].allowed_args)
              /\ ArgsDeviate(whitelist[k].allowed_args[1], a) )
            => _validate_command(whitelist, c, a) = REQUIRES_APPROVAL

(* C6: execute_command on a command whose registry entry is FORBIDDEN       *)
(* fails with Forbidden whatever the arguments and the entry's allowedArgs, *)
(* starts no run, creates no pending entry and publishes no event.          *)
C6_ForbiddenRejected ==
    [][ \A c \in PolicyInputs.commands, a \in PolicyInputs.args,
           t \in PolicyInputs.timeouts, rb \in PolicyInputs.requesters,
           s \in BOOLEAN :
          (RegistryLevel(c) = FORBIDDEN /\ execute_command(c, a, t, rb, s))
          => /\ lastCall'.response = "Forbidden"
             /\ UNCHANGED <<pending_commands, events, runs, runsStarted, uuids,
                            fut, timers, whitelist>> ]_vars

C6_Witness ==
    /\ lastCall.response = "Forbidden"
    /\ <<"echo">> \in DOMAIN whitelist
    /\ whitelist[<<"echo">>].security_level = FORBIDDEN
    /\ whitelist[<<"echo">>].allowed_args = Some(<<"L">>)

(* C7: execute_command on a command whose base name is absent from the      *)
(* registry fails with NotWhitelisted for every argument list, starts no    *)
(* run and leaves the pending mapping and the whitelist unchanged.          *)
C7_NotWhitelistedRejected ==
    [][ \A c \in PolicyInputs.commands, a \in PolicyInputs.args,
           t \in PolicyInputs.timeouts, rb \in PolicyInputs.requesters,
           s \in BOOLEAN :
          (StripPath(c) \notin DOMAIN whitelist /\ execute_command(c, a, t, rb, s))
          => /\ lastCall'.response = "NotWhitelisted"
             /\ UNCHANGED <<pending_commands, events, runs, runsStarted, uuids,
                            fut, timers, whitelist>> ]_vars

C7_Witness ==
    /\ lastCall.response = "NotWhitelisted"
    /\ <<"echo">> \notin DOMAIN whitelist
    /\ DOMAIN pending_commands # {}

(* C8: a record enters the pending mapping only when the Validator          *)
(* classifies its command and args REQUIRES_APPROVAL against the registry   *)
(* as it stands at that moment.                                             *)
C8_OnlyRequiresApprovalQueued ==
    [][ \A id \in Ids :
          (id \notin DOMAIN pending_commands /\ id \in DOMAIN pending_commands')
          => _validate_command(whitelist, pending_commands'[id].command,
                               pending_commands'[id].args) = REQUIRES_APPROVAL ]_vars

(* C9: execute_command on a request the Validator classifies SAFE starts    *)
(* the run at once and returns the result of the run when the child exits;  *)
(* neither step changes the pending mapping or publishes an event.          *)
C9_SafeRunsImmediately ==
    [][ /\ \A c \in PolicyInputs.commands, a \in PolicyInputs.args,
              t \in PolicyInputs.timeouts, rb \in PolicyInputs.requesters :
             ( /\ _validate_command(whitelist, c, a) = SAFE
               /\ execute_command(c, a, t, rb, TRUE) )
             => /\ runs' = runs (+) SetToBag({Run("execute_command", 0, c, a, timeout_ms(t))})
                /\ lastCall'.response = "running"
                /\ UNCHANGED <<pending_commands, events, uuids, fut, timers>>
        /\ \A r \in BagToSet(runs), completion \in PolicyInputs.completions :
             execute_command_resume(r, completion)
             => /\ completion # "timeout"
                   => lastCall' = Exited(completion)
                /\ UNCHANGED <<pending_commands, events, uuids, fut, timers>> ]_vars

C9_Witness ==
    /\ lastCall = Exited("exit0")
    /\ DOMAIN pending_commands # {}

(* C10: approve(id) and deny(id, reason) on an id that is not in the        *)
(* pending mapping fail with NotFound and change nothing else.              *)
C10_UnknownIdNotFound ==
    [][ \A id \in IdInputs, s \in BOOLEAN, reason \in QueueInputs.reasons :
          ( /\ id \notin DOMAIN pending_commands
            /\ approve_command(id, s) \/ deny_command(id, reason) )
          => /\ lastCall'.response = "NotFound"
             /\ UNCHANGED <<pending_commands, whitelist, events, runs, runsStarted,
                            uuids, fut, timers>> ]_vars

C10_Witness ==
    /\ lastCall.response = "NotFound"
    /\ uuids = 1
    /\ DOMAIN pending_commands = {}

----------------------------------------------------------------------------
(* C11: deny(id, reason) on a pending id removes id from the pending        *)
(* mapping, publishes a `denied` event with id and reason, and fails the    *)
(* future of a blocking record with reason; the blocking call that awaits   *)
(* a denied id then raises an error whose message is that reason.           *)
C11_DenyRejectsWaiter ==
    [][ /\ \A id \in Ids, reason \in QueueInputs.reasons :
             (id \in DOMAIN pending_commands /\ deny_command(id, reason))
             => /\ id \notin DOMAIN pending_commands'
                /\ events'[id] = Append(events[id],
                       Event("command:denied", id, "", "", reason, None))
                /\ pending_commands[id].blocking
                      => fut'[id].state = "exception" /\ fut'[id].error = reason
        /\ \A id \in Ids :
             ( /\ CountOf(id, {"command:denied"}) > 0
               /\ _queue_command_for_approval_resume(id) )
             => \E i \in 1..Len(events[id]) :
                   /\ events[id][i].type = "command:denied"
                   /\ lastCall'.response = events[id][i].text ]_vars

C11_Witness ==
    /\ lastCall.response = "Command denied"
    /\ fut[1].state = "exception" /\ ~fut[1].awaited
    /\ CountOf(1, {"command:denied"}) = 1
    /\ CountOf(1, {"command:approved"}) = 1

(* C12: when approve(id) returns a CommandResult, an `approved` event with  *)
(* id and that output has been published, id is out of the pending mapping, *)
(* and the future of a blocking record holds the CommandResult that approve *)
(* returned.                                                                *)
C12_ApproveDeliversResult ==
    [][ \A r \in BagToSet(runs), completion \in QueueInputs.completions :
          (approve_command_resume(r, completion) /\ lastCall'.response = "result")
          => /\ r.id \notin DOMAIN pending_commands'
             /\ \E i \in 1..Len(events'[r.id]) :
                   events'[r.id][i] = Event("command:approved", r.id,
                       lastCall'.result.stdout, lastCall'.result.stderr, "", None)
             /\ fut[r.id].state # "none"
                   => /\ fut'[r.id].state = "result"
                      /\ fut'[r.id].result = lastCall'.result ]_vars

\* How many `failed` events the stream ev holds for id.
FailedCount(ev, id) ==
    Cardinality({i \in 1..Len(ev[id]) : ev[id][i].type = "command:failed"})

\* What C13 asks of the state after a failed approve of id raised err.
FailedApproveOutcome(id, err) ==
    /\ id \notin DOMAIN pending_commands'
    /\ FailedCount(events', id) = 1
    /\ events'[id][Len(events'[id])] = Event("command:failed", id, "", "", err, None)
    /\ fut[id].state # "none"
          => fut'[id].state = "exception" /\ fut'[id].error = err

(* C13: when the run started by approve(id) fails, by a spawn failure or a  *)
(* timeout, id is out of the pending mapping afterwards, the stream of id   *)
(* holds exactly one `failed` event, with the error, the future of a        *)
(* blocking record fails with that error, and approve raises it.            *)
C13_FailedApproveCleansUp ==
    [][ /\ \A id \in Ids :
             (id \in DOMAIN pending_commands /\ approve_command(id, FALSE))
             => FailedApproveOutcome(id, lastCall'.response)
        /\ \A r \in BagToSet(runs) :
             approve_command_resume(r, "timeout")
             => FailedApproveOutcome(r.id, lastCall'.response) ]_vars

(* C14: when a run outlives the timeout in force, the Executor kills the    *)
(* child and the call, execute_command on a SAFE command or approve, fails  *)
(* with the Timeout error and no other.                                     *)
C14_TimeoutKillsAndFails ==
    [][ \A r \in BagToSet(runs) :
          (execute_command_resume(r, "timeout") \/ approve_command_resume(r, "timeout"))
          => /\ lastCall'.response = Timeout
             /\ lastCall'.child = "killed" ]_vars

\* The ids handed out so far.
Generated == 1..uuids

\* approve(id) or deny(id) has resolved: it published its terminal event.
Resolved(ev, id) ==
    \E i \in 1..Len(ev[id]) : ev[id][i].type \in Terminal

(* C15: a queue call inserts under an id that was never generated before    *)
(* and leaves every existing record as it is; the record stored under an id *)
(* carries that id; and an id whose approve or deny has resolved is out of  *)
(* the pending mapping from then on.                                        *)
C15_IdsNeverReused ==
    [][ \A id \in Ids :
          /\ (id \notin DOMAIN pending_commands /\ id \in DOMAIN pending_commands')
                => /\ id \notin Generated
                   /\ id \in 1..uuids'
                   /\ pending_commands'[id].id = id
          /\ (id \in DOMAIN pending_commands /\ id \in DOMAIN pending_commands')
                => pending_commands'[id] = pending_commands[id]
          /\ Resolved(events', id) => id \notin DOMAIN pending_commands' ]_vars

C15_Witness ==
    /\ uuids = 2
    /\ Resolved(events, 1) /\ CountOf(1, {"command:approved"}) = 1
    /\ 1 \notin DOMAIN pending_commands
    /\ 2 \in DOMAIN pending_commands

\* The step is an approve or a deny that acts on the pending record of id:
\* an approve whose spawn fails, an approve resuming from its run, a deny.
DecisionOn(id) ==
    \/ approve_command(id, FALSE)
    \/ \E r \in BagToSet(runs), completion \in ManyInputs.completions :
          r.id = id /\ approve_command_resume(r, completion)
    \/ \E reason \in ManyInputs.reasons : deny_command(id, reason)

(* C16: a pending record is removed only by a step of approve(id) or        *)
(* deny(id) and is never altered: the timer callback, the whitelist         *)
(* operations and other execute_command or queue calls leave every pending  *)
(* record in place and unchanged.                                           *)
C16_OnlyDecisionsRemove ==
    [][ \A id \in DOMAIN pending_commands :
          /\ id \notin DOMAIN pending_commands' => DecisionOn(id)
          /\ id \in DOMAIN pending_commands'
                => pending_commands'[id] = pending_commands[id] ]_vars

C16_Witness ==
    /\ 1 \in DOMAIN pending_commands
    /\ CountOf(1, {"command:approval_timeout"}) = 1
    /\ <<"mkdir">> \notin DOMAIN whitelist
    /\ uuids = 2 /\ 2 \notin DOMAIN pending_commands
    /\ lastCall = Exited("exit0")

\* The advisory event of id.
ApprovalTimeout(id) ==
    Event("command:approval_timeout", id, "", "", "Command approval timed out.", None)

\* The stream of id holds the advisory event.
Warned(id) == \E i \in 1..Len(events[id]) : events[id][i] = ApprovalTimeout(id)

(* C17: when the 5-second timer of a queued command, of either entry mode,  *)
(* fires while its id is still pending, an `approval_timeout` event for the *)
(* id is published and nothing else changes: the record stays pending.      *)
(* After the event, deny(id) and approve(id) on the still-pending id        *)
(* succeed as they do before it: deny removes the record and publishes      *)
(* `denied`, approve starts the run of the recorded command.                *)
C17_AdvisoryTimeout ==
    [][ \A id \in Ids :
          /\ (id \in DOMAIN pending_commands /\ _timeout_check(id))
                => /\ events' = emit(events, id, ApprovalTimeout(id))
                   /\ UNCHANGED <<pending_commands, fut, whitelist, runs,
                                  runsStarted, uuids>>
          /\ (id \in DOMAIN pending_commands /\ Warned(id))
                => /\ \A reason \in ManyInputs.reasons :
                         deny_command(id, reason)
                         => /\ lastCall'.response = "none"
                            /\ id \notin DOMAIN pending_commands'
                            /\ events'[id] = Append(events[id],
                                  Event("command:denied", id, "", "", reason, None))
                   /\ approve_command(id, TRUE)
                         => /\ lastCall'.response = "running"
                            /\ runsStarted'[id] = runsStarted[id] + 1
                            /\ \E r \in BagToSet(runs') :
                                  /\ r.id = id
                                  /\ r.command = pending_commands[id].command
                                  /\ r.args = pending_commands[id].args ]_vars

C17_Witness ==
    /\ Len(events[1]) = 3 /\ Len(events[2]) = 3
    /\ events[1][1].record[1].blocking # events[2][1].record[1].blocking
    /\ events[1][2] = ApprovalTimeout(1) /\ events[1][3].type = "command:denied"
    /\ events[2][2] = ApprovalTimeout(2) /\ events[2][3].type = "command:approved"

(* C18: the non-blocking queue call returns the generated id in the step    *)
(* that makes it, without suspending; in the state it returns in, the id    *)
(* is in the pending mapping with the supplied command and args, and the    *)
(* stream of the id is exactly the `pending` event carrying the record: no  *)
(* approve or deny of that id has acted.                                    *)
C18_NonBlockingReturnsId ==
    [][ \A c \in ManyInputs.queued, a \in ManyInputs.args,
           rb \in ManyInputs.requesters :
          queue_command_for_approval_non_blocking(c, a, rb)
          => LET id == lastCall'.id
             IN  /\ lastCall'.response = "queued"
                 /\ id \in Ids /\ id \notin Generated
                 /\ id \in DOMAIN pending_commands'
                 /\ pending_commands'[id].command = c
                 /\ pending_commands'[id].args = a
                 /\ events'[id] = <<Event("command:pending", id, "", "", "",
                                          Some(pending_commands'[id]))>>
                 /\ fut'[id] = NoFuture
                 /\ UNCHANGED <<runs, runsStarted>> ]_vars

C18_Witness ==
    /\ lastCall = Queued(2)
    /\ 2 \in DOMAIN pending_commands
    /\ ApproveRunning(1)

\* The blocking call that queued id is still suspended on its future.
Waiting(id) == fut[id].awaited

(* C19: the blocking execute_command call that queued id completes only     *)
(* after an approve or deny of id has acted; its future is fulfilled in the *)
(* step of the first approve or deny outcome and never by the timer, and    *)
(* once fulfilled it never changes; and once an approve or deny of id has   *)
(* resolved, the waiting call eventually completes.                         *)
C19_WaiterCompletesOnDecision ==
    /\ [][ \A id \in Ids :
             /\ _queue_command_for_approval_resume(id) => Resolved(events, id)
             /\ (fut[id].state = "pending" /\ fut'[id].state # "pending")
                   => ~Resolved(events, id) /\ Resolved(events', id)
             /\ fut[id].state \in {"result", "exception"}
                   => /\ fut'[id].state = fut[id].state
                      /\ fut'[id].result = fut[id].result
                      /\ fut'[id].error = fut[id].error
             /\ _timeout_check(id) => fut' = fut ]_vars
    /\ \A id \in Ids : (Waiting(id) /\ Resolved(events, id)) ~> ~Waiting(id)

C19_Witness ==
    /\ fut[1].state = "result" /\ ~Waiting(1)
    /\ lastCall = Call("result", ResultOf("exit0"))
    /\ Warned(1)

(* C20: through the execute_command tool, every request the Validator       *)
(* classifies REQUIRES_APPROVAL, by the entry's own level or by allowedArgs *)
(* escalation and for any path form of the command, returns the generated   *)
(* pending id in the same step: the tool call does not suspend on the       *)
(* approval.                                                                *)
C20_ToolNeverSuspends ==
    [][ \A c \in PolicyInputs.commands, a \in PolicyInputs.args, s \in BOOLEAN :
          ( /\ _validate_command(whitelist, c, a) = REQUIRES_APPROVAL
            /\ tool_execute_command(c, a, s) )
          => /\ lastCall'.response = "queued"
             /\ lastCall'.id \in DOMAIN pending_commands'
             /\ fut' = fut ]_vars

----------------------------------------------------------------------------
\* A whitelist operation of the approval-queue specification.
WhitelistOperation ==
    \/ \E entry \in QueueInputs.entries : add_to_whitelist(entry)
    \/ \E command \in QueueInputs.removals : remove_from_whitelist(command)
    \/ \E command \in QueueInputs.updates, level \in CommandSecurityLevel :
          update_security_level(command, level)

(* C21: add, remove and update_level leave the pending mapping, the events  *)
(* and the futures unchanged, also while a record of the command they name  *)
(* is pending; approve(id) runs the recorded command and args whatever the  *)
(* registry says about the command by then, and returns the result of the   *)
(* run.                                                                     *)
C21_WhitelistIndependent ==
    [][ /\ WhitelistOperation
             => UNCHANGED <<pending_commands, events, fut, timers, runs,
                            runsStarted, uuids>>
        /\ \A id \in DOMAIN pending_commands :
             approve_command(id, TRUE)
             => /\ lastCall'.response = "running"
                /\ runs' = runs (+) SetToBag({Run("approve_command", id,
                              pending_commands[id].command,
                              pending_commands[id].args, default_timeout)})
        /\ \A r \in BagToSet(runs), completion \in QueueInputs.completions :
             (approve_command_resume(r, completion) /\ completion # "timeout")
             => lastCall' = Exited(completion) ]_vars

C21_Witness ==
    /\ <<"mkdir">> \notin DOMAIN whitelist
    /\ lastCall = Exited("exit0")
    /\ Len(events[1]) = 2
    /\ events[1][1].record[1].command = <<"mkdir">>
    /\ events[1][2].type = "command:approved"

(* C22: add(entry) stores entry under its command name, replacing the       *)
(* entry that was there and touching no other; the registry holds one       *)
(* entry per command name; and once the entry last added for a bare name    *)
(* such as echo is FORBIDDEN, the Validator answers FORBIDDEN and            *)
(* execute_command fails with Forbidden for every argument list.            *)
C22_LastWriteWins ==
    [][ /\ \A entry \in PolicyInputs.entries :
             add_to_whitelist(entry)
             => /\ DOMAIN whitelist' = DOMAIN whitelist \cup {entry.command}
                /\ whitelist'[entry.command] = entry
                /\ \A k \in DOMAIN whitelist \ {entry.command} :
                      whitelist'[k] = whitelist[k]
                /\ (entry.security_level = FORBIDDEN
                    /\ StripPath(entry.command) = entry.command)
                      => \A a \in PolicyInputs.args :
                            _validate_command(whitelist', entry.command, a) = FORBIDDEN
        /\ \A k \in DOMAIN whitelist' : whitelist'[k].command = k
        /\ \A c \in PolicyInputs.commands, a \in PolicyInputs.args,
              s \in BOOLEAN :
             ( /\ c \in DOMAIN whitelist
               /\ StripPath(c) = c
               /\ whitelist[c].security_level = FORBIDDEN
               /\ execute_command(c, a, None, NoRequester, s) )
             => lastCall'.response = "Forbidden" ]_vars

C22_Witness ==
    /\ <<"echo">> \in DOMAIN whitelist
    /\ whitelist[<<"echo">>] = Entry(<<"echo">>, FORBIDDEN, None, None)
    /\ lastCall.response = "Forbidden"

(* C23: every key of the whitelist mapping is a base name, without any      *)
(* path segment under / or \, so that the entry added with a command string *)
(* is the one the Validator looks up for that string.                       *)
C23_KeysNormalized ==
    \A k \in DOMAIN whitelist : StripPath(k) = k

(* C24: remove(c) and update_level(c, level) on a command that has no       *)
(* entry leave the registry, and everything else, as it is and raise        *)
(* nothing; update_level creates no entry.                                  *)
C24_AbsentIsNoOp ==
    [][ /\ \A c \in PolicyInputs.removals :
             (c \notin DOMAIN whitelist /\ remove_from_whitelist(c))
             => /\ lastCall'.response = "none"
                /\ UNCHANGED <<whitelist, pending_commands, events, fut, runs>>
        /\ \A c \in PolicyInputs.updates, level \in CommandSecurityLevel :
             (c \notin DOMAIN whitelist /\ update_security_level(c, level))
             => /\ lastCall'.response = "none"
                /\ UNCHANGED <<whitelist, pending_commands, events, fut, runs>> ]_vars

C24_Witness ==
    /\ <<"echo">> \notin DOMAIN whitelist
    /\ lastCall.response = "none"
    /\ uuids = 1
    /\ <<"x", "\\", "rm">> \in DOMAIN whitelist

(* C25: a subscriber that raises while an event is delivered does not       *)
(* disturb the operation that published it: no operation ends with the     *)
(* subscriber's exception; every published event reaches every subscriber;  *)
(* a queue call still schedules its timer and returns its id or suspends    *)
(* on its future; and the approve or deny that publishes a terminal event   *)
(* still removes the record and fulfils the future of a blocking record.    *)
C25_SubscriberErrorsContained ==
    [][ /\ lastCall'.response # SubscriberError
        /\ \A id \in Ids :
             Len(events'[id]) > Len(events[id])
             => LET e == events'[id][Len(events'[id])]
                IN  /\ Len(events'[id]) = Len(events[id]) + 1
                    /\ e.delivered = Listeners
                    /\ e.type = "command:pending"
                          => /\ id \in DOMAIN pending_commands'
                             /\ timers'[id] = "scheduled"
                             /\ lastCall'.response \in {"queued", "suspended"}
                             /\ lastCall'.response = "suspended" => fut'[id].awaited
                    /\ e.type \in Terminal
                          => /\ id \notin DOMAIN pending_commands'
                             /\ fut[id].state = "pending"
                                   => fut'[id].state # "pending" ]_vars

C25_Witness ==
    /\ raising = {"first"}
    /\ Len(events[1]) = 2
    /\ events[1][2].type = "command:approved"
    /\ events[1][2].delivered = <<"first", "second">>
    /\ fut[1].state = "result"
    /\ lastCall = Call("result", ResultOf("exit0"))

(* C26: a child that exits with a non-zero status gives a CommandResult,    *)
(* not an error: execute_command returns it, and approve returns it,        *)
(* publishes `approved` with it and no `failed`, and the future of a        *)
(* blocking record holds it.                                                *)
C26_NonZeroExitIsResult ==
    [][ \A r \in BagToSet(runs) :
          /\ execute_command_resume(r, "exit_nonzero")
                => lastCall' = Exited("exit_nonzero")
          /\ approve_command_resume(r, "exit_nonzero")
                => /\ lastCall' = Exited("exit_nonzero")
                   /\ events'[r.id] = Append(events[r.id],
                         Event("command:approved", r.id,
                               ResultOf("exit_nonzero").stdout,
                               ResultOf("exit_nonzero").stderr, "", None))
                   /\ fut[r.id].state # "none"
                         => /\ fut'[r.id].state = "result"
                            /\ fut'[r.id].result = ResultOf("exit_nonzero") ]_vars

(* C27: for an entry that is not FORBIDDEN and has allowedArgs set, an      *)
(* argument list no longer than allowedArgs whose every argument equals    *)
(* the pattern at its position, the empty list included, is classified as   *)
(* the entry's own level.                                                   *)
C27_MatchingArgsKeepLevel ==
    \A c \in PolicyInputs.commands, a \in PolicyInputs.args :
        LET k == StripPath(c)
        IN  ( /\ k \in DOMAIN whitelist
              /\ whitelist[k].security_level # FORBIDDEN
              /\ ~IsNone(whitelist[k].allowed_args)
              /\ ~ArgsDeviate(whitelist[k].allowed_args[1], a) )
            => _validate_command(whitelist, c, a) = whitelist[k].security_level

C27_Witness ==
    /\ <<"echo">> \in DOMAIN whitelist
    /\ whitelist[<<"echo">>] = Entry(<<"echo">>, SAFE, Some(<<"L">>), None)
    /\ \E r \in BagToSet(runs) : r.command = <<"echo">> /\ r.args = <<"L">>
    /\ lastCall.response = "running"

(* C28: for an entry whose allowedArgs is unset, every argument list is     *)
(* classified as the entry's own level, whatever its length and content.    *)
C28_UnsetArgsKeepLevel ==
    \A c \in PolicyInputs.commands, a \in PolicyInputs.args :
        LET k == StripPath(c)
        IN  (k \in DOMAIN whitelist /\ IsNone(whitelist[k].allowed_args))
            => _validate_command(whitelist, c, a) = whitelist[k].security_level

C28_Witness ==
    /\ <<"echo">> \in DOMAIN whitelist
    /\ whitelist[<<"echo">>] = Entry(<<"echo">>, REQUIRES_APPROVAL, None, None)
    /\ 1 \in DOMAIN pending_commands
    /\ pending_commands[1] = PendingCommand(1, <<"echo">>, <<"L", "L">>, "agent", TRUE)
    /\ lastCall.response = "suspended"

(* C29: every entry seeded from the platform default set has allowedArgs    *)
(* unset and a description, and as long as it is in the registry its        *)
(* command is classified at the level of its set, SAFE, REQUIRES_APPROVAL   *)
(* or FORBIDDEN, for every argument list.                                   *)
C29_DefaultsUnrestricted ==
    LET defaults == get_platform_specific_commands(platform)
    IN  \A i \in 1..Len(defaults) :
          LET e == defaults[i]
          IN  (e.command \in DOMAIN whitelist /\ whitelist[e.command] = e)
              => /\ IsNone(e.allowed_args)
                 /\ ~IsNone(e.description)
                 /\ \A a \in PolicyInputs.args :
                       _validate_command(whitelist, e.command, a) = e.security_level

(* C30: a blocking execute_command request classified REQUIRES_APPROVAL     *)
(* adds exactly one record to the pending mapping, under a new id, with     *)
(* the command, args and requestedBy of the request; publishes exactly one  *)
(* event, `pending` with that record; and then suspends on its future.      *)
C30_BlockingQueuesOneRecord ==
    [][ \A c \in PolicyInputs.commands, a \in PolicyInputs.args,
           rb \in PolicyInputs.requesters :
          ( /\ _validate_command(whitelist, c, a) = REQUIRES_APPROVAL
            /\ execute_command(c, a, None, rb, TRUE) )
          => \E id \in Ids \ DOMAIN pending_commands :
                /\ DOMAIN pending_commands' = DOMAIN pending_commands \cup {id}
                /\ pending_commands'[id] = PendingCommand(id, c, a, rb, TRUE)
                /\ \A k \in DOMAIN pending_commands :
                      pending_commands'[k] = pending_commands[k]
                /\ events'[id] = <<Event("command:pending", id, "", "", "",
                                         Some(pending_commands'[id]))>>
                /\ \A k \in Ids \ {id} : events'[k] = events[k]
                /\ lastCall'.response = "suspended"
                /\ fut'[id].state = "pending" /\ fut'[id].awaited ]_vars

C30_Witness ==
    /\ lastCall.response = "suspended"
    /\ DOMAIN pending_commands = {1}
    /\ pending_commands[1] = PendingCommand(1, <<"echo">>, <<"-l">>, "agent", TRUE)
    /\ Len(events[1]) = 1

----------------------------------------------------------------------------
(* Children running side by side: two ids, as many SAFE runs in flight as   *)
(* approve runs, every execute_command call with a timeout of its own, and  *)
(* the level of mkdir changing under the queued requests.                   *)

RunInputs ==
    [ platforms   |-> { LINUX },
      commands    |-> { <<"echo">>, <<"mkdir">> },
      queued      |-> { <<"mkdir">> },
      args        |-> { <<>> },
      timeouts    |-> { Some(1000) },
      requesters  |-> { NoRequester },
      reasons     |-> { "policy" },
      completions |-> { "exit0" },
      entries     |-> { get_macos_approval_commands[3] },
      removals    |-> { <<"mkdir">> },
      updates     |-> { <<"mkdir">> },
      maxIds      |-> MaxIds,
      maxApproveRuns |-> MaxApproveRuns,
      maxSafeRuns |-> MaxApproveRuns,
      raising     |-> { {} } ]

InitRuns ==
    /\ \E p \in RunInputs.platforms : InitOn(p)
    /\ raising \in RunInputs.raising

NextRuns ==
    \/ UpdateSecurityLevel(RunInputs)
    \/ ExecuteCommand(RunInputs)
    \/ ExecuteCommandResume(RunInputs)
    \/ QueueNonBlocking(RunInputs)
    \/ ApproveCommand(RunInputs)
    \/ ApproveCommandResume(RunInputs)
    \/ DenyCommand(RunInputs)

SpecRuns == InitRuns /\ [][NextRuns]_vars

----------------------------------------------------------------------------
\* The record the `pending` event of id carried when the request was queued.
QueuedRecord(id) == events[id][1].record[1]

(* C31: approve(id) starts one run, of the command and the argument list    *)
(* recorded when the request was queued, under the service's default        *)
(* timeout and under no timeout an execute_command call supplied, whatever  *)
(* the whitelist says about the command when the approval is made.          *)
C31_ApproveRunsRecorded ==
    [][ \A id \in DOMAIN pending_commands :
          approve_command(id, TRUE)
          => /\ runs' = runs (+) SetToBag({Run("approve_command", id,
                           QueuedRecord(id).command, QueuedRecord(id).args,
                           default_timeout)})
             /\ \A t \in RunInputs.timeouts : default_timeout # timeout_ms(t)
             /\ lastCall'.response = "running"
             /\ UNCHANGED whitelist ]_vars

C31_Witness ==
    /\ whitelist[<<"mkdir">>].security_level = FORBIDDEN
    /\ fut[1].state = "pending"
    /\ runs = SetToBag({Run("approve_command", 1, <<"mkdir">>, <<>>, default_timeout)})
    /\ lastCall.response = "running"

(* C32: an `approval_timeout` event is published for an id at most once,    *)
(* only while the id is in the pending mapping and only if no approve or    *)
(* deny has claimed the id; the timer callback changes neither the pending  *)
(* mapping nor a future.                                                    *)
C32_NoTimeoutAfterClaim ==
    [][ \A id \in Ids :
          /\ _timeout_check(id) => UNCHANGED <<pending_commands, fut, runs>>
          /\ CountOf(id, {"command:approval_timeout"}) <= 1
          /\ (_timeout_check(id) /\ events'[id] # events[id])
                => /\ id \in DOMAIN pending_commands
                   /\ Winners(id) = 0 ]_vars

(* C33: a run in progress holds nothing back: a SAFE execute_command and an *)
(* approve made while children are running start their own child at once,   *)
(* and a queue call, a deny of an id that is not being run and a change of  *)
(* a whitelist level made meanwhile complete and leave the runs alone.      *)
C33_NoExecutionLock ==
    [][ runs # EmptyBag
        => /\ \A c \in RunInputs.commands, a \in RunInputs.args,
                 t \in RunInputs.timeouts, rb \in RunInputs.requesters :
                ( /\ _validate_command(whitelist, c, a) = SAFE
                  /\ execute_command(c, a, t, rb, TRUE) )
                => /\ lastCall'.response = "running"
                   /\ runs' = runs (+) SetToBag({Run("execute_command", 0, c, a,
                                                     timeout_ms(t))})
           /\ \A id \in DOMAIN pending_commands :
                approve_command(id, TRUE)
                => /\ lastCall'.response = "running"
                   /\ BagCardinality(runs') = BagCardinality(runs) + 1
           /\ \A c \in RunInputs.queued, a \in RunInputs.args,
                 rb \in RunInputs.requesters :
                queue_command_for_approval_non_blocking(c, a, rb)
                => /\ lastCall'.response = "queued"
                   /\ uuids' \in DOMAIN pending_commands'
                   /\ runs' = runs
           /\ \A id \in DOMAIN pending_commands, reason \in RunInputs.reasons :
                (~ApproveRunning(id) /\ deny_command(id, reason))
                => /\ lastCall'.response = "none"
                   /\ id \notin DOMAIN pending_commands'
                   /\ runs' = runs
           /\ \A c \in RunInputs.updates, level \in CommandSecurityLevel :
                (c \in DOMAIN whitelist /\ update_security_level(c, level))
                => /\ lastCall'.response = "none"
                   /\ whitelist'[c].security_level = level
                   /\ runs' = runs ]_vars

C33_Witness ==
    /\ RunCount(runs, "execute_command") = 2
    /\ ApproveRunning(1)
    /\ ApproveRunning(2)
    /\ lastCall.response = "none"
    /\ whitelist[<<"mkdir">>].security_level = FORBIDDEN

(* C34: update_level(c, level) on a command c that has an entry changes     *)
(* the level of that entry and nothing else: its allowedArgs, description   *)
(* and command, every other entry and the pending mapping stay as they      *)
(* are; from then on c is classified from the new level: FORBIDDEN if the   *)
(* level is FORBIDDEN, else the level itself, or REQUIRES_APPROVAL where    *)
(* the arguments deviate from the entry's allowedArgs.                      *)
C34_UpdateChangesOnlyLevel ==
    [][ \A c \in PolicyInputs.updates, level \in CommandSecurityLevel :
          (c \in DOMAIN whitelist /\ update_security_level(c, level))
          => /\ DOMAIN whitelist' = DOMAIN whitelist
             /\ whitelist'[c].security_level = level
             /\ whitelist'[c].allowed_args = whitelist[c].allowed_args
             /\ whitelist'[c].description = whitelist[c].description
             /\ whitelist'[c].command = whitelist[c].command
             /\ \A k \in DOMAIN whitelist \ {c} : whitelist'[k] = whitelist[k]
             /\ UNCHANGED <<pending_commands, events, fut, runs, uuids>>
             /\ \A a \in PolicyInputs.args :
                  LET v == _validate_command(whitelist', c, a)
                      allowed_args == whitelist[c].allowed_args
                  IN  /\ level = FORBIDDEN => v = FORBIDDEN
                      /\ level # FORBIDDEN => v \in {level, REQUIRES_APPROVAL}
                      /\ ( \/ IsNone(allowed_args)
                           \/ ~ArgsDeviate(allowed_args[1], a) ) => v = level ]_vars

C34_Witness ==
    /\ <<"echo">> \in DOMAIN whitelist
    /\ whitelist[<<"echo">>] =
          Entry(<<"echo">>, REQUIRES_APPROVAL, None, Some("Print text to standard output"))
    /\ 1 \in DOMAIN pending_commands
    /\ pending_commands[1].command = <<"echo">>
    /\ lastCall.response = "suspended"
====
